---- MODULE Spec2Model ----
(***************************************************************************)
(* Model of the Luxe Couture catalogue backend (src/main.py): the data     *)
(* source resolver fetch_products_from_db_or_sample and the request        *)
(* handlers list_products, get_product, featured and new_arrivals.         *)
(*                                                                         *)
(* A Python str is a sequence of one-character strings, so that            *)
(* str.lower() and the `in` substring test are computed and not assumed.   *)
(* An Optional value is a sequence of length 0 (None) or 1.                *)
(***************************************************************************)
EXTENDS Integers, Sequences, FiniteSets, TLC

VARIABLES
  database,         \* the `database` module as an import would find it
  SAMPLE_PRODUCTS,  \* the module-level list object of main.py
  fetched,          \* outcome of the latest resolver call
  resp,             \* the latest HTTP response
  hist,             \* history: what happened between the requests so far
  thr               \* the worker threads that run handlers statement by statement

vars == <<database, SAMPLE_PRODUCTS, fetched, resp, hist, thr>>

----------------------------------------------------------------------------
(* Bounds *)

\* longest batch the store holds in the resolver specification
MaxDocs == 2
\* longest batch the store holds in the query specification
MaxItems == 3
\* number of concurrently served requests
NumThreads == 2

----------------------------------------------------------------------------
(* Python strings *)

UpperChars ==
  <<"A","B","C","D","E","F","G","H","I","J","K","L","M","N","O","P","Q","R","S","T","U","V","W","X","Y","Z">>

LowerChars ==
  <<"a","b","c","d","e","f","g","h","i","j","k","l","m","n","o","p","q","r","s","t","u","v","w","x","y","z">>

\* the lower-case letter of every upper-case letter
UpperToLower ==
  [c \in {UpperChars[i] : i \in 1..Len(UpperChars)} |->
     LowerChars[CHOOSE i \in 1..Len(UpperChars) : UpperChars[i] = c]]

\* str.lower() on one character
LowerChar(c) ==
  IF c \in DOMAIN UpperToLower THEN UpperToLower[c] ELSE c

\* str.lower()
lower(s) ==
  [i \in 1..Len(s) |-> LowerChar(s[i])]

\* the Python test `sub in s` on two strings
contains(sub, s) ==
  \E i \in 0..(Len(s) - Len(sub)) : SubSeq(s, i + 1, i + Len(sub)) = sub

\* Python truthiness of an Optional[str]: None and "" are falsy
Truthy(opt) ==
  opt # <<>> /\ opt[1] # <<>>

----------------------------------------------------------------------------
(* The demo dataset *)

SampleCoat ==
  [ id |-> <<"s","t","-","l","a","u","r","e","n","t","-","c","o","a","t">>,
    name |-> <<"W","o","o","l"," ","C","a","s","h","m","e","r","e"," ","O","v","e","r","c","o","a","t">>,
    price |-> 2490,
    gender |-> <<"m","e","n">>,
    category |-> <<"o","u","t","e","r","w","e","a","r">>,
    sizes |-> <<"S", "M", "L", "XL">>,
    images |-> <<"https://images.unsplash.com/photo-1516826957135-700dedea698c?q=80&w=1400&auto=format&fit=crop",
                 "https://images.unsplash.com/photo-1490481651871-ab68de25d43d?q=80&w=1400&auto=format&fit=crop">>,
    description |-> << <<"T","a","i","l","o","r","e","d"," ","I","t","a","l","i","a","n"," ","w","o","o","l","-","c","a","s","h","m","e","r","e"," ","b","l","e","n","d"," ","w","i","t","h"," ","s","i","l","k"," ","l","i","n","i","n","g",".">> >>,
    tags |-> <<<<"c","o","a","t">>, <<"c","a","s","h","m","e","r","e">>, <<"l","u","x","u","r","y">>>>,
    featured |-> TRUE,
    new_arrival |-> FALSE ]

SampleHeel ==
  [ id |-> <<"d","i","o","r","-","h","e","e","l","-","0","1">>,
    name |-> <<"P","a","t","e","n","t"," ","L","e","a","t","h","e","r"," ","S","t","i","l","e","t","t","o">>,
    price |-> 980,
    gender |-> <<"w","o","m","e","n">>,
    category |-> <<"s","h","o","e","s">>,
    sizes |-> <<"35", "36", "37", "38", "39", "40">>,
    images |-> <<"https://images.unsplash.com/photo-1520975922215-c0495a1fd8ec?q=80&w=1400&auto=format&fit=crop",
                 "https://images.unsplash.com/photo-1561808843-7c3b1b4e6b8c?q=80&w=1400&auto=format&fit=crop">>,
    description |-> << <<"G","l","o","s","s","y"," ","p","a","t","e","n","t"," ","l","e","a","t","h","e","r"," ","w","i","t","h"," ","g","o","l","d"," ","a","c","c","e","n","t"," ","h","e","e","l",".">> >>,
    tags |-> <<<<"h","e","e","l","s">>, <<"g","o","l","d">>>>,
    featured |-> TRUE,
    new_arrival |-> TRUE ]

SampleBag ==
  [ id |-> <<"g","u","c","c","i","-","b","a","g","-","v","e","l","v","e","t">>,
    name |-> <<"V","e","l","v","e","t"," ","C","h","a","i","n"," ","S","h","o","u","l","d","e","r"," ","B","a","g">>,
    price |-> 3150,
    gender |-> <<"w","o","m","e","n">>,
    category |-> <<"b","a","g","s">>,
    sizes |-> <<>>,
    images |-> <<"https://images.unsplash.com/photo-1548036328-c9fa89d128fa?q=80&w=1400&auto=format&fit=crop",
                 "https://images.unsplash.com/photo-1547949003-9792a18a2601?q=80&w=1400&auto=format&fit=crop">>,
    description |-> << <<"S","i","g","n","a","t","u","r","e"," ","v","e","l","v","e","t"," ","w","i","t","h"," ","b","r","u","s","h","e","d"," ","g","o","l","d"," ","c","h","a","i","n",".">> >>,
    tags |-> <<<<"b","a","g">>, <<"c","h","a","i","n">>, <<"v","e","l","v","e","t">>>>,
    featured |-> FALSE,
    new_arrival |-> TRUE ]

SampleTee ==
  [ id |-> <<"b","a","l","e","n","c","i","a","g","a","-","t","e","e">>,
    name |-> <<"L","o","g","o"," ","C","o","t","t","o","n"," ","T","-","S","h","i","r","t">>,
    price |-> 450,
    gender |-> <<"u","n","i","s","e","x">>,
    category |-> <<"t","o","p","s">>,
    sizes |-> <<"XS", "S", "M", "L", "XL">>,
    images |-> <<"https://images.unsplash.com/photo-1544441893-675973e31985?q=80&w=1400&auto=format&fit=crop">>,
    description |-> << <<"P","r","e","m","i","u","m"," ","h","e","a","v","y","w","e","i","g","h","t"," ","c","o","t","t","o","n"," ","w","i","t","h"," ","s","u","b","t","l","e"," ","l","o","g","o"," ","p","r","i","n","t",".">> >>,
    tags |-> <<<<"t","-","s","h","i","r","t">>, <<"c","o","t","t","o","n">>>>,
    featured |-> FALSE,
    new_arrival |-> FALSE ]

SampleBoots ==
  [ id |-> <<"y","s","l","-","b","o","o","t","s","-","c","h","e","l","s","e","a">>,
    name |-> <<"L","e","a","t","h","e","r"," ","C","h","e","l","s","e","a"," ","B","o","o","t","s">>,
    price |-> 1290,
    gender |-> <<"m","e","n">>,
    category |-> <<"s","h","o","e","s">>,
    sizes |-> <<"40", "41", "42", "43", "44">>,
    images |-> <<"https://images.unsplash.com/photo-1519741497674-611481863552?q=80&w=1400&auto=format&fit=crop">>,
    description |-> << <<"P","o","l","i","s","h","e","d"," ","c","a","l","f","s","k","i","n"," ","w","i","t","h"," ","e","l","a","s","t","i","c"," ","s","i","d","e"," ","p","a","n","e","l","s",".">> >>,
    tags |-> <<<<"b","o","o","t","s">>, <<"l","e","a","t","h","e","r">>>>,
    featured |-> TRUE,
    new_arrival |-> FALSE ]

SampleData ==
  <<SampleCoat, SampleHeel, SampleBag, SampleTee, SampleBoots>>

----------------------------------------------------------------------------
(* Product construction from a raw store record *)

\* the fields of Product that have no default
RequiredFields ==
  {"id", "name", "price", "gender", "category"}

\* the defaults of the other fields of Product
ProductDefaults ==
  [ sizes |-> <<>>, images |-> <<>>, description |-> <<>>, tags |-> <<>>,
    featured |-> FALSE, new_arrival |-> FALSE ]

\* dict.get(k, default)
DictGet(d, k, default) ==
  IF k \in DOMAIN d THEN d[k] ELSE default

\* str() of a record key: an ObjectId prints its hex digits, a str is itself,
\* None prints as "None"
str(v) ==
  CASE v.t = "oid" -> v.hex
    [] v.t = "str" -> v.s
    [] v.t = "none" -> <<"N","o","n","e">>

\* d["id"] = str(d.get("_id", d.get("id")))
SetId(d) ==
  [k \in (DOMAIN d) \cup {"id"} |->
     IF k = "id"
       THEN str(DictGet(d, "_id", DictGet(d, "id", [t |-> "none"])))
       ELSE d[k]]

\* {k: v for k, v in d.items() if k != "_id"}
DropUnderscoreId(d) ==
  [k \in (DOMAIN d) \ {"_id"} |-> d[k]]

\* Product(**kw): fails validation when a field without default is absent,
\* fills the defaults otherwise
Product(kw) ==
  IF RequiredFields \subseteq DOMAIN kw
    THEN [ok |-> TRUE,
          value |-> [f \in RequiredFields \cup DOMAIN ProductDefaults |->
                       IF f \in DOMAIN kw THEN kw[f] ELSE ProductDefaults[f]]]
    ELSE [ok |-> FALSE, value |-> "ValidationError"]

\* the loop over docs: products so far, or the exception of the first record
\* that fails to construct
RECURSIVE MapDocs(_, _)
MapDocs(docs, products) ==
  IF docs = <<>>
    THEN [raised |-> "none", products |-> products]
    ELSE LET p == Product(DropUnderscoreId(SetId(Head(docs))))
         IN  IF p.ok
               THEN MapDocs(Tail(docs), Append(products, p.value))
               ELSE [raised |-> "ValidationError", products |-> <<>>]


----------------------------------------------------------------------------
(* Records the external store can hold *)

DocTie ==
  [ _id |-> [t |-> "oid", hex |-> <<"a","1">>], name |-> <<"S","i","l","k"," ","T","i","e">>, price |-> 120,
    gender |-> <<"m","e","n">>, category |-> <<"t","i","e","s">>, description |-> <<<<"g","o","l","d"," ","t","h","r","e","a","d">>>>,
    tags |-> <<<<"s","i","l","k">>>>, featured |-> TRUE ]

DocRing ==
  [ id |-> [t |-> "str", s |-> <<"A","1">>], name |-> <<"G","o","l","d"," ","R","i","n","g">>, price |-> 120,
    gender |-> <<"U","n","i","s","e","x">>, category |-> <<"R","i","n","g","s">>, tags |-> <<<<"G","i","f","t">>>>, new_arrival |-> TRUE ]

DocScarf ==
  [ _id |-> [t |-> "str", s |-> <<"a","1">>], id |-> [t |-> "str", s |-> <<"z","z">>], name |-> <<"S","c","a","r","f">>,
    price |-> 90, gender |-> <<"u","n","i","s","e","x">>, category |-> <<"T","i","e","s">>, tags |-> <<<<"w","o","o","l">>, <<"G","O","L","D","E","N">>>> ]

\* a record without the key k
Without(d, k) ==
  [f \in (DOMAIN d) \ {k} |-> d[f]]

DocNoId ==
  Without(DocTie, "_id")

DocNoName ==
  Without(DocTie, "name")

DocNoPrice ==
  Without(DocTie, "price")

DocNoGender ==
  Without(DocTie, "gender")

DocNoCategory ==
  Without(DocTie, "category")

\* the records the store may hold in the resolver specification
StoreDocs ==
  {DocTie, DocNoId, DocNoName, DocNoPrice, DocNoGender, DocNoCategory}

\* the records the store may hold in the query specification
CatalogDocs ==
  {DocTie, DocRing, DocScarf}

\* sequences over S of length at most n
SeqUpTo(S, n) ==
  UNION {[1..k -> S] : k \in 0..n}

----------------------------------------------------------------------------
(* Data source resolver *)

\* the classes derived from Exception that the try body can raise
ExceptionClasses ==
  {"ImportError", "StoreError", "ValidationError"}

\* variant: the handler is `except ImportError:`
ExceptCatchesImportOnly(exc) ==
  exc = "ImportError"

\* `except Exception:` catches every class derived from Exception
ExceptCatches(exc) ==
  exc \in ExceptionClasses

\* the try body: either raises, or returns the mapped products, or falls
\* through to the statement after the try
TryBody(db) ==
  IF db.status = "no_module"
    THEN [raised |-> "ImportError", returned |-> FALSE, value |-> <<>>]
  ELSE IF db.status = "db_none"
    THEN [raised |-> "none", returned |-> FALSE, value |-> <<>>]
  ELSE IF db.status = "read_error"
    THEN [raised |-> "StoreError", returned |-> FALSE, value |-> <<>>]
  ELSE LET m == MapDocs(db.docs, <<>>)
       IN  IF m.raised # "none"
             THEN [raised |-> m.raised, returned |-> FALSE, value |-> <<>>]
           ELSE IF m.products # <<>>
             THEN [raised |-> "none", returned |-> TRUE, value |-> m.products]
           ELSE [raised |-> "none", returned |-> FALSE, value |-> <<>>]

\* variant: the resolver keeps the records of an earlier read and returns
\* them again
fetch_cached(db, sample) ==
  LET b == TryBody(db)
  IN  IF fetched.value # <<>> /\ ~fetched.shared
        THEN [raised |-> "none", shared |-> FALSE, value |-> fetched.value]
      ELSE IF b.raised # "none" /\ ~ExceptCatches(b.raised)
        THEN [raised |-> b.raised, shared |-> FALSE, value |-> <<>>]
      ELSE IF b.raised = "none" /\ b.returned
        THEN [raised |-> "none", shared |-> FALSE, value |-> b.value]
      ELSE [raised |-> "none", shared |-> TRUE, value |-> sample]

\* the resolver: `shared` tells that the returned list is the module-level
\* list object itself, `raised` the exception that escapes to the caller
fetch_products_from_db_or_sample(db, sample) ==
  LET b == TryBody(db)
  IN  IF b.raised # "none" /\ ~ExceptCatches(b.raised)
        THEN [raised |-> b.raised, shared |-> FALSE, value |-> <<>>]
      ELSE IF b.raised = "none" /\ b.returned
        THEN [raised |-> "none", shared |-> FALSE, value |-> b.value]
      ELSE [raised |-> "none", shared |-> TRUE, value |-> sample]

----------------------------------------------------------------------------
(* Catalogue query *)

\* variant: the two clauses of the gender test are two list comprehensions
\* whose results are concatenated
GenderFilterConcat(items, gender) ==
  IF Truthy(gender)
    THEN SelectSeq(items, LAMBDA p : lower(p.gender) = lower(gender[1]))
           \o SelectSeq(items, LAMBDA p : gender[1] = <<"u","n","i","s","e","x">> /\ p.gender = <<"u","n","i","s","e","x">>)
    ELSE items

\* variant: unisex products are compatible with every requested gender
GenderFilterCompatible(items, gender) ==
  IF Truthy(gender)
    THEN SelectSeq(items, LAMBDA p :
           \/ lower(p.gender) = lower(gender[1])
           \/ p.gender = <<"u","n","i","s","e","x">>)
    ELSE items

\* the gender stage
GenderFilter(items, gender) ==
  IF Truthy(gender)
    THEN SelectSeq(items, LAMBDA p :
           \/ lower(p.gender) = lower(gender[1])
           \/ (gender[1] = <<"u","n","i","s","e","x">> /\ p.gender = <<"u","n","i","s","e","x">>))
    ELSE items

\* the category stage
CategoryFilter(items, category) ==
  IF Truthy(category)
    THEN SelectSeq(items, LAMBDA p : lower(p.category) = lower(category[1]))
    ELSE items

\* variant: a search without a hit shows everything
SearchFilterAllWhenNone(items, q) ==
  IF Truthy(q)
    THEN LET ql == lower(q[1])
             hit == SelectSeq(items, LAMBDA p :
                      \/ contains(ql, lower(p.name))
                      \/ \E i \in 1..Len(p.tags) : contains(ql, lower(p.tags[i])))
         IN  IF hit = <<>> THEN items ELSE hit
    ELSE items

\* variant: the description is searched as well
SearchFilterWithDescription(items, q) ==
  IF Truthy(q)
    THEN LET ql == lower(q[1])
         IN  SelectSeq(items, LAMBDA p :
               \/ contains(ql, lower(p.name))
               \/ (p.description # <<>> /\ contains(ql, lower(p.description[1])))
               \/ \E i \in 1..Len(p.tags) : contains(ql, lower(p.tags[i])))
    ELSE items

\* the free-text stage
SearchFilter(items, q) ==
  IF Truthy(q)
    THEN LET ql == lower(q[1])
         IN  SelectSeq(items, LAMBDA p :
               \/ contains(ql, lower(p.name))
               \/ \E i \in 1..Len(p.tags) : contains(ql, lower(p.tags[i])))
    ELSE items

\* list.reverse()
Reverse(s) ==
  [i \in 1..Len(s) |-> s[Len(s) + 1 - i]]

\* one step of the stable sort: p goes behind every element whose price is
\* not greater than its own
RECURSIVE InsertByPrice(_, _)
InsertByPrice(s, p) ==
  IF s = <<>> \/ p.price < Head(s).price
    THEN <<p>> \o s
    ELSE <<Head(s)>> \o InsertByPrice(Tail(s), p)

\* the stable ascending sort by price
RECURSIVE SortByPrice(_)
SortByPrice(s) ==
  IF s = <<>>
    THEN <<>>
    ELSE InsertByPrice(SortByPrice(SubSeq(s, 1, Len(s) - 1)), s[Len(s)])

\* variant: the descending order is the ascending order read backwards
sortedThenReversed(items, reverse) ==
  IF reverse
    THEN Reverse(SortByPrice(items))
    ELSE SortByPrice(items)

\* sorted(items, key=lambda p: p.price, reverse=...): with reverse the list is
\* reversed, sorted, and reversed again
sorted(items, reverse) ==
  IF reverse
    THEN Reverse(SortByPrice(Reverse(items)))
    ELSE SortByPrice(items)

\* the two sort statements
SortStage(items, sort) ==
  LET asc == IF sort = <<"price_asc">> THEN sorted(items, FALSE) ELSE items
  IN  IF sort = <<"price_desc">> THEN sorted(asc, TRUE) ELSE asc

\* the body of list_products after the resolver call
QueryPipeline(items, gender, category, q, sort) ==
  SortStage(SearchFilter(CategoryFilter(GenderFilter(items, gender), category), q), sort)

\* variant: the ids are compared without regard to letter case
RECURSIVE ScanByIdIgnoreCase(_, _)
ScanByIdIgnoreCase(items, product_id) ==
  IF items = <<>>
    THEN [status |-> 404, body |-> <<>>]
  ELSE IF lower(Head(items).id) = lower(product_id)
    THEN [status |-> 200, body |-> <<Head(items)>>]
  ELSE ScanByIdIgnoreCase(Tail(items), product_id)

\* the scan of get_product: the first product with that id, or 404
RECURSIVE ScanById(_, _)
ScanById(items, product_id) ==
  IF items = <<>>
    THEN [status |-> 404, body |-> <<>>]
  ELSE IF Head(items).id = product_id
    THEN [status |-> 200, body |-> <<Head(items)>>]
  ELSE ScanById(Tail(items), product_id)

\* [p for p in items if p.featured]
FeaturedOf(items) ==
  SelectSeq(items, LAMBDA p : p.featured)

\* [p for p in items if p.new_arrival]
NewArrivalsOf(items) ==
  SelectSeq(items, LAMBDA p : p.new_arrival)


----------------------------------------------------------------------------
(* State *)

NoFetch ==
  [raised |-> "none", shared |-> FALSE, value |-> <<>>]

NoResp ==
  [op |-> "none", gender |-> <<>>, category |-> <<>>, q |-> <<>>, sort |-> <<>>,
   product_id |-> <<>>, status |-> 0, body |-> <<>>]

\* request parameters of the resolver specification
FewGenders ==
  {<<>>, <<<<"m","e","n">>>>}

FewSorts ==
  {<<>>, <<"price_desc">>}

FewIds ==
  {<<"a","1">>, <<"N","o","n","e">>}

\* request parameters of the query specification
GenderParams ==
  {<<>>, << <<>> >>, <<<<"m","e","n">>>>, <<<<"W","o","m","e","n">>>>, <<<<"u","n","i","s","e","x">>>>, <<<<"U","N","I","S","E","X">>>>}

CategoryParams ==
  {<<>>, <<<<"s","h","o","e","s">>>>, <<<<"T","I","E","S">>>>, <<<<"b","a","g","s">>>>}

QParams ==
  {<<>>, << <<>> >>, <<<<"g","o","l","d">>>>, <<<<"S","I","L","K">>>>, <<<<"e","a">>>>}

SortParams ==
  {<<>>, <<"price_asc">>, <<"price_desc">>, <<"PRICE_ASC">>}

IdParams ==
  {<<"a","1">>, <<"A","1">>, <<"z","z">>, <<"d","i","o","r","-","h","e","e","l","-","0","1">>, <<"D","i","o","r","-","H","e","e","l","-","0","1">>, <<"u","n","k","n","o","w","n","-","i","d">>}

\* history after a request whose resolver call returned f
Served(f) ==
  CASE hist = "init" -> "served"
    [] hist = "changed" -> IF f.value # fetched.value THEN "refetched" ELSE "again"
    [] OTHER -> hist

\* history after a change of the store
Changed ==
  IF hist = "init" THEN "init" ELSE "changed"

Idle ==
  [t \in 1..NumThreads |-> [pc |-> "idle"]]

\* the process has started, the store is not configured, no request was made
Init ==
  /\ database = [status |-> "db_none", docs |-> <<>>]
  /\ SAMPLE_PRODUCTS = SampleData
  /\ fetched = NoFetch
  /\ resp = NoResp
  /\ hist = "init"
  /\ thr = Idle

----------------------------------------------------------------------------
(* The external store changes on its own *)

\* the store becomes unavailable, unconfigured, unreadable, or comes up empty
StoreSetStatus(s) ==
  /\ database.status # s
  /\ database' = [status |-> s, docs |-> <<>>]
  /\ hist' = Changed
  /\ UNCHANGED <<SAMPLE_PRODUCTS, fetched, resp, thr>>

\* a record is added to the product collection
StoreInsert(d, max) ==
  /\ database.status = "ok"
  /\ Len(database.docs) < max
  /\ database' = [database EXCEPT !.docs = Append(database.docs, d)]
  /\ hist' = Changed
  /\ UNCHANGED <<SAMPLE_PRODUCTS, fetched, resp, thr>>

\* a record is removed from the product collection
StoreDelete(i) ==
  /\ database.status = "ok"
  /\ i \in 1..Len(database.docs)
  /\ database' = [database EXCEPT
                    !.docs = SubSeq(database.docs, 1, i - 1)
                               \o SubSeq(database.docs, i + 1, Len(database.docs))]
  /\ hist' = Changed
  /\ UNCHANGED <<SAMPLE_PRODUCTS, fetched, resp, thr>>

----------------------------------------------------------------------------
(* Request handlers, one request at a time *)

\* an exception that escapes a handler is answered with status 500
Answer(op, f, gender, category, q, sort, product_id, status, body) ==
  [op |-> op, gender |-> gender, category |-> category, q |-> q, sort |-> sort,
   product_id |-> product_id,
   status |-> IF f.raised # "none" THEN 500 ELSE status,
   body |-> IF f.raised # "none" THEN <<>> ELSE body]

\* GET /products
list_products(gender, category, q, sort) ==
  LET f == fetch_products_from_db_or_sample(database, SAMPLE_PRODUCTS)
  IN  /\ fetched' = f
      /\ resp' = Answer("list_products", f, gender, category, q, sort, <<>>, 200,
                        QueryPipeline(f.value, gender, category, q, sort))
      /\ hist' = Served(f)
      /\ UNCHANGED <<database, SAMPLE_PRODUCTS, thr>>

\* GET /products/{product_id}
get_product(product_id) ==
  LET f == fetch_products_from_db_or_sample(database, SAMPLE_PRODUCTS)
      r == ScanById(f.value, product_id)
  IN  /\ fetched' = f
      /\ resp' = Answer("get_product", f, <<>>, <<>>, <<>>, <<>>, product_id,
                        r.status, r.body)
      /\ hist' = Served(f)
      /\ UNCHANGED <<database, SAMPLE_PRODUCTS, thr>>

\* GET /featured
featured ==
  LET f == fetch_products_from_db_or_sample(database, SAMPLE_PRODUCTS)
  IN  /\ fetched' = f
      /\ resp' = Answer("featured", f, <<>>, <<>>, <<>>, <<>>, <<>>, 200,
                        FeaturedOf(f.value))
      /\ hist' = Served(f)
      /\ UNCHANGED <<database, SAMPLE_PRODUCTS, thr>>

\* GET /new-arrivals
new_arrivals ==
  LET f == fetch_products_from_db_or_sample(database, SAMPLE_PRODUCTS)
  IN  /\ fetched' = f
      /\ resp' = Answer("new_arrivals", f, <<>>, <<>>, <<>>, <<>>, <<>>, 200,
                        NewArrivalsOf(f.value))
      /\ hist' = Served(f)
      /\ UNCHANGED <<database, SAMPLE_PRODUCTS, thr>>

----------------------------------------------------------------------------
(* Specification of the resolver: the store changes between requests *)

Next ==
  \/ \E s \in {"no_module", "db_none", "read_error", "ok"} : StoreSetStatus(s)
  \/ \E d \in StoreDocs : StoreInsert(d, MaxDocs)
  \/ \E i \in 1..MaxDocs : StoreDelete(i)
  \/ \E g \in FewGenders, s \in FewSorts : list_products(g, <<>>, <<>>, s)
  \/ \E id \in FewIds : get_product(id)
  \/ featured
  \/ new_arrivals

Spec ==
  Init /\ [][Next]_vars


----------------------------------------------------------------------------
(* Specification of the query: the first request after start, over every    *)
(* store content and every combination of parameters                        *)

InitQuery ==
  /\ database \in {[status |-> "db_none", docs |-> <<>>]}
                    \cup {[status |-> "ok", docs |-> ds] : ds \in SeqUpTo(CatalogDocs, MaxItems)}
  /\ SAMPLE_PRODUCTS = SampleData
  /\ fetched = NoFetch
  /\ resp = NoResp
  /\ hist = "init"
  /\ thr = Idle

NextQuery ==
  \/ /\ hist = "init"
     /\ \E g \in GenderParams, c \in CategoryParams, q \in QParams, s \in SortParams :
          list_products(g, c, q, s)
  \/ /\ hist = "init"
     /\ \E id \in IdParams : get_product(id)
  \/ /\ hist = "init"
     /\ featured
  \/ /\ hist = "init"
     /\ new_arrivals

SpecQuery ==
  InitQuery /\ [][NextQuery]_vars

----------------------------------------------------------------------------
(* Request handlers run by worker threads, one statement at a time.  The    *)
(* local variable `items` is a reference: either to the module-level list   *)
(* object or to a list of the thread's own.                                 *)

\* a reference to a list built by this call
Local(v) ==
  [shared |-> FALSE, value |-> v]

\* the list a reference points to
Deref(ref, sample) ==
  IF ref.shared THEN sample ELSE ref.value

\* variant: items.sort(...) sorts the list `items` refers to in place
AssignSortedInPlace(ref, sample, reverse) ==
  IF ref.shared
    THEN [items |-> ref, sample |-> sorted(sample, reverse)]
    ELSE [items |-> Local(sorted(ref.value, reverse)), sample |-> sample]

\* items = sorted(items, ...): sorted() builds a new list and leaves the
\* list it was given as it is
AssignSorted(ref, sample, reverse) ==
  [items |-> Local(sorted(Deref(ref, sample), reverse)), sample |-> sample]

\* request parameters of the concurrent specification
ConcSorts ==
  {<<"price_asc">>, <<"price_desc">>}

ConcIds ==
  {<<"d","i","o","r","-","h","e","e","l","-","0","1">>}

\* a worker thread picks up a request
Begin(t, op, gender, sort, product_id) ==
  /\ thr[t].pc = "idle"
  /\ thr' = [thr EXCEPT ![t] = [pc |-> "fetch", op |-> op, gender |-> gender,
                                category |-> <<>>, q |-> <<>>, sort |-> sort,
                                product_id |-> product_id,
                                items |-> Local(<<>>)]]
  /\ UNCHANGED <<database, SAMPLE_PRODUCTS, fetched, resp, hist>>

\* items = fetch_products_from_db_or_sample()
Fetch(t) ==
  /\ thr[t].pc = "fetch"
  /\ LET f == fetch_products_from_db_or_sample(database, SAMPLE_PRODUCTS)
     IN  thr' = [thr EXCEPT
                   ![t].items = IF f.shared THEN [shared |-> TRUE, value |-> <<>>]
                                            ELSE Local(f.value),
                   ![t].pc = CASE f.raised # "none" -> "failed"
                               [] thr[t].op = "list_products" -> "gender"
                               [] thr[t].op = "get_product" -> "scan"
                               [] OTHER -> "select"]
  /\ UNCHANGED <<database, SAMPLE_PRODUCTS, fetched, resp, hist>>

\* if gender: items = [p for p in items if ...]
GenderStep(t) ==
  /\ thr[t].pc = "gender"
  /\ thr' = [thr EXCEPT
               ![t].items = IF Truthy(thr[t].gender)
                              THEN Local(GenderFilter(Deref(thr[t].items, SAMPLE_PRODUCTS),
                                                      thr[t].gender))
                              ELSE thr[t].items,
               ![t].pc = "category"]
  /\ UNCHANGED <<database, SAMPLE_PRODUCTS, fetched, resp, hist>>

\* if category: items = [p for p in items if ...]
CategoryStep(t) ==
  /\ thr[t].pc = "category"
  /\ thr' = [thr EXCEPT
               ![t].items = IF Truthy(thr[t].category)
                              THEN Local(CategoryFilter(Deref(thr[t].items, SAMPLE_PRODUCTS),
                                                        thr[t].category))
                              ELSE thr[t].items,
               ![t].pc = "q"]
  /\ UNCHANGED <<database, SAMPLE_PRODUCTS, fetched, resp, hist>>

\* if q: items = [p for p in items if ...]
SearchStep(t) ==
  /\ thr[t].pc = "q"
  /\ thr' = [thr EXCEPT
               ![t].items = IF Truthy(thr[t].q)
                              THEN Local(SearchFilter(Deref(thr[t].items, SAMPLE_PRODUCTS),
                                                      thr[t].q))
                              ELSE thr[t].items,
               ![t].pc = "sort_asc"]
  /\ UNCHANGED <<database, SAMPLE_PRODUCTS, fetched, resp, hist>>

\* if sort == "price_asc": items = sorted(items, key=lambda p: p.price)
SortAscStep(t) ==
  /\ thr[t].pc = "sort_asc"
  /\ LET r == IF thr[t].sort = <<"price_asc">>
                THEN AssignSorted(thr[t].items, SAMPLE_PRODUCTS, FALSE)
                ELSE [items |-> thr[t].items, sample |-> SAMPLE_PRODUCTS]
     IN  /\ thr' = [thr EXCEPT ![t].items = r.items, ![t].pc = "sort_desc"]
         /\ SAMPLE_PRODUCTS' = r.sample
  /\ UNCHANGED <<database, fetched, resp, hist>>

\* if sort == "price_desc": items = sorted(..., reverse=True); return items
SortDescStep(t) ==
  /\ thr[t].pc = "sort_desc"
  /\ LET r == IF thr[t].sort = <<"price_desc">>
                THEN AssignSorted(thr[t].items, SAMPLE_PRODUCTS, TRUE)
                ELSE [items |-> thr[t].items, sample |-> SAMPLE_PRODUCTS]
     IN  /\ thr' = [thr EXCEPT ![t] = [pc |-> "done", op |-> thr[t].op, status |-> 200,
                                       shared |-> r.items.shared,
                                       body |-> Deref(r.items, r.sample)]]
         /\ SAMPLE_PRODUCTS' = r.sample
  /\ UNCHANGED <<database, fetched, resp, hist>>

\* the loop of get_product, which only reads, and its return or raise
ScanStep(t) ==
  /\ thr[t].pc = "scan"
  /\ LET r == ScanById(Deref(thr[t].items, SAMPLE_PRODUCTS), thr[t].product_id)
     IN  thr' = [thr EXCEPT ![t] = [pc |-> "done", op |-> thr[t].op, status |-> r.status,
                                    shared |-> thr[t].items.shared, body |-> r.body]]
  /\ UNCHANGED <<database, SAMPLE_PRODUCTS, fetched, resp, hist>>

\* the list comprehension of featured or new_arrivals, and its return
SelectStep(t) ==
  /\ thr[t].pc = "select"
  /\ LET own == IF thr[t].op = "featured"
                  THEN FeaturedOf(Deref(thr[t].items, SAMPLE_PRODUCTS))
                  ELSE NewArrivalsOf(Deref(thr[t].items, SAMPLE_PRODUCTS))
     IN  thr' = [thr EXCEPT ![t] = [pc |-> "done", op |-> thr[t].op, status |-> 200,
                                    shared |-> thr[t].items.shared, body |-> own]]
  /\ UNCHANGED <<database, SAMPLE_PRODUCTS, fetched, resp, hist>>

\* the response is sent and the thread is free again
Reply(t) ==
  /\ thr[t].pc = "done"
  /\ thr' = [thr EXCEPT ![t] = [pc |-> "idle"]]
  /\ UNCHANGED <<database, SAMPLE_PRODUCTS, fetched, resp, hist>>

\* the store is not configured, or holds two records
InitConc ==
  /\ database \in {[status |-> "db_none", docs |-> <<>>],
                   [status |-> "ok", docs |-> <<DocScarf, DocTie>>]}
  /\ SAMPLE_PRODUCTS = SampleData
  /\ fetched = NoFetch
  /\ resp = NoResp
  /\ hist = "init"
  /\ thr = Idle

NextConc ==
  \E t \in 1..NumThreads :
    \/ \E g \in FewGenders, s \in ConcSorts : Begin(t, "list_products", g, s, <<>>)
    \/ \E id \in ConcIds : Begin(t, "get_product", <<>>, <<>>, id)
    \/ Begin(t, "featured", <<>>, <<>>, <<>>)
    \/ Begin(t, "new_arrivals", <<>>, <<>>, <<>>)
    \/ Fetch(t)
    \/ GenderStep(t)
    \/ CategoryStep(t)
    \/ SearchStep(t)
    \/ SortAscStep(t)
    \/ SortDescStep(t)
    \/ ScanStep(t)
    \/ SelectStep(t)
    \/ Reply(t)

SpecConc ==
  InitConc /\ [][NextConc]_vars

----------------------------------------------------------------------------
(* Properties of the resolver *)

\* the elements of a sequence
Range(s) ==
  {s[i] : i \in 1..Len(s)}

\* no change of the store since the latest request
Fresh ==
  hist \in {"served", "again", "refetched"}

\* the product the code builds from a raw record
Mapped(d) ==
  Product(DropUnderscoreId(SetId(d)))

\* C1: the resolver never lets an error reach its caller, and it returns the
\* built-in sample list when the database module cannot be imported, db is
\* None, get_documents raises, or get_documents returns no record; what it
\* returns is store-derived only if the store is configured, was read, and at
\* least one record was mapped.
C1_ResolverFallsBack ==
  Fresh =>
    /\ fetched.raised = "none"
    /\ resp.status # 500
    /\ (database.status # "ok" \/ database.docs = <<>>)
         => (fetched.shared /\ fetched.value = SampleData)
    /\ ~fetched.shared
         => /\ database.status = "ok"
            /\ Len(fetched.value) >= 1
            /\ Len(fetched.value) = Len(database.docs)

\* C1 witness: a request was served while get_documents raises
C1_Witness ==
  /\ Fresh
  /\ database.status = "read_error"
  /\ fetched.shared
  /\ fetched.value = SampleData
  /\ resp.status = 200

\* a record lacks a field of Product that has no default; for id, it has
\* neither "_id" nor "id"
MissingRequired(d) ==
  \/ \E f \in RequiredFields \ {"id"} : f \notin DOMAIN d
  \/ ("id" \notin DOMAIN d /\ "_id" \notin DOMAIN d)

\* C2: when any record of the batch lacks one of id, name, price, gender or
\* category, the whole batch is discarded and the resolver returns the sample
\* list, never a product built from the incomplete record.
C2_BadRecordDiscardsBatch ==
  (/\ Fresh
   /\ database.status = "ok"
   /\ \E i \in 1..Len(database.docs) : MissingRequired(database.docs[i]))
    => (fetched.shared /\ fetched.value = SampleData)

\* C10: what a request returns is computed from the store as it is at that
\* request: a store-derived list is the mapping of the records the store holds
\* now, in order, anything else is the sample list, and every returned product
\* is taken from that list.
C10_NoRetainedRecords ==
  Fresh =>
    /\ ~fetched.shared
         => /\ database.status = "ok"
            /\ fetched.value = [i \in 1..Len(database.docs) |-> Mapped(database.docs[i]).value]
    /\ fetched.shared => fetched.value = SampleData
    /\ Range(resp.body) \subseteq Range(fetched.value)

\* C10 witness: after an earlier request the store changed, and the next
\* request returned records of the store that differ from the earlier ones
C10_Witness ==
  /\ hist = "refetched"
  /\ ~fetched.shared
  /\ resp.status = 200
  /\ resp.body # <<>>


----------------------------------------------------------------------------
(* Properties of the query *)

\* how often p occurs in s
Count(p, s) ==
  Cardinality({i \in 1..Len(s) : s[i] = p})

\* a GET /products request was answered
Listed ==
  resp.op = "list_products" /\ resp.status = 200

\* C3: for every combination of gender, category, q and sort, no product
\* occurs more often in the result of list_products than in the list the
\* resolver returned.
C3_SubMultiset ==
  Listed =>
    \A p \in Range(resp.body) : Count(p, resp.body) <= Count(p, fetched.value)

\* C3 witness: a filtered and sorted answer that keeps a product the store
\* holds twice and drops another record
C3_Witness ==
  /\ Listed
  /\ Truthy(resp.gender)
  /\ resp.sort = <<"price_desc">>
  /\ Len(resp.body) < Len(fetched.value)
  /\ \E p \in Range(resp.body) : Count(p, resp.body) = 2

\* case-insensitive equality of the gender parameter and a product's gender
SameGender(p, gender) ==
  lower(p.gender) = lower(gender[1])

\* C4: the gender filter is case-insensitive equality of the parameter and
\* the product's gender: every returned product passes it, and with no other
\* filter every product that passes it is returned, in order.
C4_GenderIsEquality ==
  (Listed /\ Truthy(resp.gender)) =>
    /\ \A p \in Range(resp.body) : SameGender(p, resp.gender)
    /\ (~Truthy(resp.category) /\ ~Truthy(resp.q) /\ resp.sort = <<>>)
         => resp.body = SelectSeq(fetched.value, LAMBDA p : SameGender(p, resp.gender))

\* C4 witness: gender=men leaves out a product whose gender is unisex
C4_Witness ==
  /\ Listed
  /\ resp.gender = <<<<"m","e","n">>>>
  /\ resp.body # <<>>
  /\ \E p \in Range(fetched.value) : p.gender = <<"u","n","i","s","e","x">> /\ p \notin Range(resp.body)

\* C5: the three filters commute: each of the six orders yields the set of
\* products the code's order yields, and that set is the intersection of the
\* three filters applied to the whole input.
C5_FiltersCommute ==
  Listed =>
    LET items == fetched.value
        G(x) == GenderFilter(x, resp.gender)
        C(x) == CategoryFilter(x, resp.category)
        Q(x) == SearchFilter(x, resp.q)
        out == Range(resp.body)
    IN  /\ out = Range(Q(C(G(items))))
        /\ out = Range(C(Q(G(items))))
        /\ out = Range(Q(G(C(items))))
        /\ out = Range(G(Q(C(items))))
        /\ out = Range(C(G(Q(items))))
        /\ out = Range(G(C(Q(items))))
        /\ out = Range(G(items)) \cap Range(C(items)) \cap Range(Q(items))

\* C5 witness: all three filters are given, each drops a product, and a
\* product remains
C5_Witness ==
  /\ Listed
  /\ Truthy(resp.gender) /\ Truthy(resp.category) /\ Truthy(resp.q)
  /\ resp.body # <<>>
  /\ Len(GenderFilter(fetched.value, resp.gender)) < Len(fetched.value)
  /\ Len(CategoryFilter(fetched.value, resp.category)) < Len(fetched.value)
  /\ Len(SearchFilter(fetched.value, resp.q)) < Len(fetched.value)

\* the list that reaches the sort stage
Filtered ==
  SearchFilter(CategoryFilter(GenderFilter(fetched.value, resp.gender), resp.category), resp.q)

\* the products of s that cost v, in the order of s
AtPrice(s, v) ==
  SelectSeq(s, LAMBDA p : p.price = v)

\* C6: with price_asc the result is the filtered list in non-decreasing price
\* order, with price_desc in non-increasing price order, in both the products
\* of equal price keep the order they had in the filtered list; with any
\* other sort value the result is the filtered list.
C6_SortStage ==
  Listed =>
    LET out == resp.body
    IN  /\ resp.sort = <<"price_asc">>
             => \A i \in 1..Len(out), j \in 1..Len(out) :
                  i < j => out[i].price <= out[j].price
        /\ resp.sort = <<"price_desc">>
             => \A i \in 1..Len(out), j \in 1..Len(out) :
                  i < j => out[i].price >= out[j].price
        /\ resp.sort \in {<<"price_asc">>, <<"price_desc">>}
             => /\ Len(out) = Len(Filtered)
                /\ \A p \in Range(Filtered) :
                     AtPrice(out, p.price) = AtPrice(Filtered, p.price)
        /\ resp.sort \notin {<<"price_asc">>, <<"price_desc">>}
             => out = Filtered

\* C6 witness: a descending sort that moves a product and keeps two different
\* products of equal price in their order
C6_Witness ==
  /\ Listed
  /\ resp.sort = <<"price_desc">>
  /\ resp.body # Filtered
  /\ \E i \in 1..Len(resp.body), j \in 1..Len(resp.body) :
       /\ i < j
       /\ resp.body[i].price = resp.body[j].price
       /\ resp.body[i] # resp.body[j]

\* C7: get_product returns the first product of the resolved list whose id is
\* the requested id, character by character, and answers 404 exactly when no
\* product has that id.
C7_GetProduct ==
  resp.op = "get_product" =>
    LET items == fetched.value
        hits == {i \in 1..Len(items) : items[i].id = resp.product_id}
    IN  /\ resp.status \in {200, 404}
        /\ resp.status = 404 <=> hits = {}
        /\ resp.status = 404 => resp.body = <<>>
        /\ resp.status = 200
             => resp.body = <<items[CHOOSE i \in hits : \A k \in hits : i <= k]>>

\* C7 witness: 404 for an id that differs only in letter case from the id of
\* a product in the list
C7_Witness ==
  /\ resp.op = "get_product"
  /\ resp.status = 404
  /\ \E p \in Range(fetched.value) : lower(p.id) = lower(resp.product_id)

\* the lower-cased q occurs in the lower-cased name or in a lower-cased tag
Matches(p, q) ==
  \/ contains(lower(q[1]), lower(p.name))
  \/ \E t \in Range(p.tags) : contains(lower(q[1]), lower(t))

\* C8: with a non-empty q every returned product has the lower-cased q in its
\* lower-cased name or in one of its lower-cased tags, and with no other
\* filter every such product is returned; the description is not consulted;
\* on the sample data q=gold returns only dior-heel-01.
C8_SearchFilter ==
  (Listed /\ Truthy(resp.q)) =>
    /\ \A p \in Range(resp.body) : Matches(p, resp.q)
    /\ (~Truthy(resp.gender) /\ ~Truthy(resp.category))
         => \A p \in Range(fetched.value) : Matches(p, resp.q) => p \in Range(resp.body)
    /\ (fetched.shared /\ resp.q = <<<<"g","o","l","d">>>> /\ ~Truthy(resp.gender)
          /\ ~Truthy(resp.category))
         => resp.body = <<SampleHeel>>

\* C8 witness: q=gold drops a product that has gold only in its description
\* and keeps one that has it only in a tag
C8_Witness ==
  /\ Listed
  /\ resp.q = <<<<"g","o","l","d">>>>
  /\ \E p \in Range(fetched.value) :
       /\ p \notin Range(resp.body)
       /\ p.description # <<>>
       /\ contains(<<"g","o","l","d">>, lower(p.description[1]))
  /\ \E p \in Range(resp.body) : ~contains(<<"g","o","l","d">>, lower(p.name))


----------------------------------------------------------------------------
(* Properties of the shared list *)

\* C9: under every interleaving of the statements of concurrently served
\* requests the module-level list holds the products it held at process
\* start, in the same order, and a request answered from it returns products
\* of that dataset only, each at most once.
C9_SampleNeverWritten ==
  /\ SAMPLE_PRODUCTS = SampleData
  /\ \A t \in 1..NumThreads :
       (thr[t].pc = "done" /\ thr[t].shared)
         => \A p \in Range(thr[t].body) :
              p \in Range(SampleData) /\ Count(p, thr[t].body) = 1

\* C9 witness: one request is about to read the shared list while another,
\* served from the fallback path, has sorted and is about to return
C9_Witness ==
  \E t \in 1..NumThreads, u \in 1..NumThreads :
    /\ t # u
    /\ thr[t].pc = "scan"
    /\ thr[t].items.shared
    /\ thr[u].pc = "sort_desc"
    /\ thr[u].sort = <<"price_asc">>
    /\ ~thr[u].items.shared
    /\ thr[u].items.value # SampleData
    /\ Len(thr[u].items.value) = Len(SampleData)

====
